---- MODULE Spec2Model ----
(***************************************************************************)
(* Model of CSC-3110/w1/w1/src/main.rs: the iterative Euclidean algorithm  *)
(* find_gcd(a, b) and the driver main, which prints find_gcd(120, 48).     *)
(*                                                                         *)
(* find_gcd is modelled line by line (pc = "L2" .. "L7"), once entered     *)
(* from main with the fixed arguments and once entered directly with any   *)
(* pair of arguments of a bounded range.  a0, b0, prevA, prevB and iters   *)
(* are history variables: the arguments of the call, the pair at the       *)
(* previous loop head and the number of completed iterations.              *)
(***************************************************************************)
EXTENDS Integers, Sequences, FiniteSets, TLC

\* ---- bounds of the model ------------------------------------------------
\* arguments of a direct call of find_gcd range over 0..MaxVal
MaxVal == 16
\* scaling factors k range over 0..MaxK
MaxK == 3
\* no call completes more than MaxIters iterations (see ItersBelowBound)
MaxIters == 12

\* ---- constants of the program -------------------------------------------
\* main.rs:11  find_gcd(120, 48)
DriverA == 120
DriverB == 48

VARIABLES entry, pc, a, b, r, result, stdout, exitCode, calls,
          a0, b0, prevA, prevB, iters

vars == <<entry, pc, a, b, r, result, stdout, exitCode, calls,
          a0, b0, prevA, prevB, iters>>

fnVars == <<a, b, r, a0, b0, prevA, prevB, iters>>
mainVars == <<result, stdout, exitCode, calls>>

\* ---- pure helpers -------------------------------------------------------
Max2(x, y) == IF x >= y THEN x ELSE y
Min2(x, y) == IF x <= y THEN x ELSE y

\* d divides n with zero remainder (d = 0 divides nothing: n % 0 panics)
Divides(d, n) == d # 0 /\ n % d = 0

\* the common divisors of x and y among 1..m
CommonDivisors(x, y, m) == {d \in 1..m : Divides(d, x) /\ Divides(d, y)}

\* main.rs:2  the loop condition `b != 0` (a wrong variable tested)
LoopCond_wrongVar(x, y) == x # 0
\* main.rs:2  the loop condition `b != 0` (off by one: `b > 1`)
LoopCond_offByOne(x, y) == y > 1
\* main.rs:2  the loop condition `b != 0` (both operands required non-zero)
LoopCond_both(x, y) == x # 0 /\ y # 0
\* main.rs:2  the loop condition `b != 0`
LoopCond(x, y) == y # 0

\* main.rs:3  the remainder `a % b` (quotient taken instead)
Rem_quotient(x, y) == x \div y
\* main.rs:3  the remainder `a % b` of two u32 values, y # 0
Rem(x, y) == x % y

\* main.rs:1-8  find_gcd as a function of its arguments
RECURSIVE FindGcd(_, _)
FindGcd(x, y) == IF LoopCond(x, y) THEN FindGcd(y, Rem(x, y)) ELSE x

\* main.rs:2-6  the number of iterations find_gcd(x, y) executes
RECURSIVE FindGcdIters(_, _)
FindGcdIters(x, y) == IF LoopCond(x, y) THEN 1 + FindGcdIters(y, Rem(x, y)) ELSE 0

\* main.rs:12  Display of one decimal digit
Digit(d) == <<"0", "1", "2", "3", "4", "5", "6", "7", "8", "9">>[d + 1]

\* main.rs:12  `{result}` (digits emitted least significant first)
RECURSIVE ToDecimal_reversed(_)
ToDecimal_reversed(n) ==
    IF n < 10 THEN <<Digit(n)>>
    ELSE <<Digit(n % 10)>> \o ToDecimal_reversed(n \div 10)
\* main.rs:12  `{result}`: the decimal digits of a u32, most significant first
RECURSIVE ToDecimal(_)
ToDecimal(n) ==
    IF n < 10 THEN <<Digit(n)>>
    ELSE ToDecimal(n \div 10) \o <<Digit(n % 10)>>

\* ---- initial states -----------------------------------------------------
\* the process at the first statement of main
InitMain ==
    /\ entry = "main"
    /\ pc = "M11"
    /\ a = 0 /\ b = 0
    /\ a0 = 0 /\ b0 = 0
    /\ calls = 0

\* find_gcd entered with any pair of arguments
InitCall ==
    /\ entry = "find_gcd"
    /\ pc = "L2"
    /\ a \in 0..MaxVal /\ b \in 0..MaxVal
    /\ a0 = a /\ b0 = b
    /\ calls = 1

Init ==
    /\ (InitMain \/ InitCall)
    /\ r = 0
    /\ prevA = a /\ prevB = b
    /\ iters = 0
    /\ result = 0
    /\ stdout = <<>>
    /\ exitCode = -1

\* ---- main ---------------------------------------------------------------
\* main.rs:11  the call find_gcd(120, 48)
MainCall ==
    /\ pc = "M11"
    /\ a' = DriverA /\ b' = DriverB
    /\ a0' = DriverA /\ b0' = DriverB
    /\ prevA' = DriverA /\ prevB' = DriverB
    /\ calls' = calls + 1
    /\ pc' = "L2"
    /\ UNCHANGED <<entry, r, iters, result, stdout, exitCode>>

\* main.rs:12  println!("{result}")
MainPrint ==
    /\ pc = "M12"
    /\ stdout' = stdout \o ToDecimal(result) \o <<"\n">>
    /\ pc' = "M13"
    /\ UNCHANGED <<entry, result, exitCode, calls>>
    /\ UNCHANGED fnVars

\* main.rs:13  main returns; the process exits with status 0
MainExit ==
    /\ pc = "M13"
    /\ exitCode' = 0
    /\ pc' = "done"
    /\ UNCHANGED <<entry, result, stdout, calls>>
    /\ UNCHANGED fnVars

\* ---- find_gcd -----------------------------------------------------------
\* main.rs:2  while b != 0
LoopTest ==
    /\ pc = "L2"
    /\ iters < MaxIters
    /\ pc' = IF LoopCond(a, b) THEN "L3" ELSE "L7"
    /\ prevA' = a /\ prevB' = b
    /\ UNCHANGED <<entry, a, b, r, a0, b0, iters>>
    /\ UNCHANGED mainVars

\* main.rs:3  let r = a % b;  (a zero divisor panics)
RemStep ==
    /\ pc = "L3"
    /\ IF b = 0
         THEN pc' = "panic" /\ exitCode' = 101 /\ r' = r
         ELSE pc' = "L4" /\ r' = Rem(a, b) /\ exitCode' = exitCode
    /\ UNCHANGED <<entry, a, b, a0, b0, prevA, prevB, iters>>
    /\ UNCHANGED <<result, stdout, calls>>

\* main.rs:4  a = b;  (the statements of lines 4 and 5 exchanged: a = r)
AssignA_fromR ==
    /\ pc = "L4"
    /\ a' = r
    /\ pc' = "L5"
    /\ UNCHANGED <<entry, b, r, a0, b0, prevA, prevB, iters>>
    /\ UNCHANGED mainVars
\* main.rs:4  a = b;
AssignA ==
    /\ pc = "L4"
    /\ a' = b
    /\ pc' = "L5"
    /\ UNCHANGED <<entry, b, r, a0, b0, prevA, prevB, iters>>
    /\ UNCHANGED mainVars

\* main.rs:5  b = r;  (b = a written instead)
AssignB_fromA ==
    /\ pc = "L5"
    /\ b' = a
    /\ iters' = iters + 1
    /\ pc' = "L2"
    /\ UNCHANGED <<entry, a, r, a0, b0, prevA, prevB>>
    /\ UNCHANGED mainVars
\* main.rs:5-6  b = r; and back to the loop head
AssignB ==
    /\ pc = "L5"
    /\ b' = r
    /\ iters' = iters + 1
    /\ pc' = "L2"
    /\ UNCHANGED <<entry, a, r, a0, b0, prevA, prevB>>
    /\ UNCHANGED mainVars

\* main.rs:7  the value of the function: a
Return ==
    /\ pc = "L7"
    /\ result' = a
    /\ pc' = IF entry = "main" THEN "M12" ELSE "done"
    /\ UNCHANGED <<entry, stdout, exitCode, calls>>
    /\ UNCHANGED fnVars

Next ==
    \/ MainCall
    \/ LoopTest
    \/ RemStep
    \/ AssignA
    \/ AssignB
    \/ Return
    \/ MainPrint
    \/ MainExit

Spec == Init /\ [][Next]_vars

\* the program is one thread that runs whenever it can take a step
FairSpec == Spec /\ WF_vars(Next)

\* ---- well-formedness ----------------------------------------------------
TypeOK ==
    /\ entry \in {"main", "find_gcd"}
    /\ pc \in {"M11", "M12", "M13", "L2", "L3", "L4", "L5", "L7", "done", "panic"}
    /\ a \in Nat /\ b \in Nat /\ r \in Nat
    /\ result \in Nat
    /\ exitCode \in {-1, 0, 101}
    /\ calls \in 0..1
    /\ iters \in 0..MaxIters

\* the bound on the iteration counter never stops a call
ItersBelowBound == iters < MaxIters

\* the function has returned (its value is in result)
Returned == pc \in {"M12", "M13", "done"}

\* the body of find_gcd is executing
InLoop == pc \in {"L2", "L3", "L4", "L5", "L7"}

\* ---- the result of find_gcd ---------------------------------------------

\* C1: for arguments that are not both zero, the value find_gcd returns is
\* non-zero, divides both arguments with zero remainder, and no larger
\* integer divides both (a common divisor of a pair that is not (0, 0) is at
\* most the larger argument).
GcdIsGreatestCommonDivisor ==
    (Returned /\ ~(a0 = 0 /\ b0 = 0)) =>
        /\ result # 0
        /\ Divides(result, a0)
        /\ Divides(result, b0)
        /\ \A d \in (result + 1)..Max2(a0, b0) :
              ~(Divides(d, a0) /\ Divides(d, b0))

\* a call with two non-zero arguments that looped and returned a proper
\* common divisor larger than 1
GcdProperDivisorReturned ==
    /\ entry = "find_gcd" /\ Returned
    /\ a0 > 0 /\ b0 > 0 /\ iters >= 3
    /\ result > 1 /\ result < Min2(a0, b0)

\* C2: find_gcd(a, 0) returns a and find_gcd(0, a) returns a; in particular
\* find_gcd(0, 0) returns 0 and find_gcd(0, 5) returns 5.
GcdWithZero ==
    Returned =>
        /\ (b0 = 0 => result = a0)
        /\ (a0 = 0 => result = b0)
        /\ (a0 = 0 /\ b0 = 0 => result = 0)
        /\ (a0 = 0 /\ b0 = 5 => result = 5)

\* find_gcd(0, 5) has returned 5 after its one iteration
GcdZeroFiveReturned ==
    Returned /\ a0 = 0 /\ b0 = 5 /\ result = 5 /\ iters = 1

\* C3: find_gcd is commutative: the value returned for (a0, b0) is the value
\* of find_gcd(b0, a0); find_gcd(48, 120) = find_gcd(120, 48) = 24.
GcdCommutative ==
    Returned =>
        /\ result = FindGcd(b0, a0)
        /\ (a0 = DriverA /\ b0 = DriverB => FindGcd(DriverB, DriverA) = 24 /\ result = 24)

\* a call with distinct non-zero arguments in increasing order has returned
GcdSwappedReturned ==
    /\ entry = "find_gcd" /\ Returned
    /\ 0 < a0 /\ a0 < b0 /\ result > 1
    /\ FindGcd(b0, a0) = result

\* C4: scaling law: find_gcd(k*a0, k*b0) = k * find_gcd(a0, b0) for every k
\* of 0..MaxK, k = 0 and a0 = b0 = 0 included (no product of the model
\* leaves the u32 range: MaxK * 120 < 2^32).
GcdScaling ==
    Returned =>
        \A k \in 0..MaxK : FindGcd(k * a0, k * b0) = k * result

\* find_gcd(4, 6) has returned 2, and find_gcd(12, 18) is 6
GcdScaledReturned ==
    /\ Returned /\ a0 = 4 /\ b0 = 6 /\ result = 2
    /\ FindGcd(3 * a0, 3 * b0) = 6

\* ---- the driver ---------------------------------------------------------
\* the one line `24`
Line24 == <<"2", "4", "\n">>

\* what holds of a run of main at every step
DriverInv ==
    /\ pc # "panic"
    /\ calls <= 1
    /\ (pc = "M11" <=> calls = 0)
    /\ (pc # "M11" => a0 = DriverA /\ b0 = DriverB)
    /\ (pc \in {"M11", "L2", "L3", "L4", "L5", "L7", "M12"} => stdout = <<>>)
    /\ (pc \in {"M13", "done"} => stdout = Line24)
    /\ (pc = "done" <=> exitCode = 0)
    /\ (pc # "done" => exitCode = -1)

\* C5: main calls find_gcd exactly once, with (120, 48), writes exactly the
\* line `24`, and then terminates with status 0; nothing else is written and
\* no other exit is reached.
DriverPrints24 ==
    /\ [](entry = "main" => DriverInv)
    /\ (entry = "main") ~> (pc = "done" /\ calls = 1 /\ stdout = Line24 /\ exitCode = 0)

\* main has exited after printing
DriverExited ==
    entry = "main" /\ pc = "done" /\ calls = 1 /\ stdout = Line24 /\ exitCode = 0

\* ---- the loop -----------------------------------------------------------

\* C6: the loop terminates: the remainder is strictly less than b, b at a
\* loop head is strictly smaller than at the previous loop head and never
\* below zero, and the function eventually returns.
LoopTerminates ==
    /\ [](pc = "L4" => r < b)
    /\ [](pc = "L2" /\ iters > 0 => b < prevB /\ b >= 0)
    /\ <>Returned

\* a call that returned after at least five iterations
LongLoopReturned ==
    Returned /\ iters >= 5 /\ b = 0 /\ b0 > 0 /\ result = a

\* C7: division by zero is unreachable: whenever the remainder is about to
\* be computed b is non-zero, and the panic of a zero divisor never happens,
\* whatever the arguments (a = 0, b = 0 and both zero included).
NoDivisionByZero ==
    /\ (pc = "L3" => b # 0)
    /\ pc # "panic"
    /\ exitCode # 101

\* the remainder has been computed in a call whose first argument is zero
RemainderComputedFromZero ==
    pc = "L4" /\ a0 = 0 /\ b0 > 0 /\ a = 0 /\ b = b0 /\ r = 0

\* C8: every remainder computed is at most the smaller operand of its
\* iteration, and every value held by a, b and r (and the result) is at most
\* the larger of the original arguments.
NoOverflow ==
    /\ (pc = "L4" => r <= Min2(a, b))
    /\ (InLoop \/ Returned =>
          /\ a <= Max2(a0, b0)
          /\ b <= Max2(a0, b0)
          /\ r <= Max2(a0, b0)
          /\ result <= Max2(a0, b0))

\* a remainder equal to the smaller operand has been computed (a < b)
RemainderIsSmallerOperand ==
    pc = "L4" /\ 0 < a /\ a < b /\ r = a

\* C9: each iteration replaces (a, b) by exactly (b, a mod b); at every loop
\* head the common divisors of (a, b) are those of the arguments (a0, b0);
\* on exit b = 0 and the returned value is the current a.
LoopInvariant ==
    /\ (pc = "L2" /\ iters > 0 =>
          prevB # 0 /\ a = prevB /\ b = prevA % prevB)
    /\ (pc = "L2" =>
          CommonDivisors(a, b, Max2(a0, b0) + 1)
            = CommonDivisors(a0, b0, Max2(a0, b0) + 1))
    /\ (pc = "L7" => b = 0)
    /\ (Returned => b = 0 /\ result = a)

\* a loop head after two iterations where the pair still has a common
\* divisor larger than 1
LoopHeadWithCommonDivisor ==
    /\ pc = "L2" /\ iters >= 2 /\ b > 0
    /\ Cardinality(CommonDivisors(a, b, Max2(a0, b0) + 1)) >= 2

\* C10: after the first iteration a > b at every loop head and at exit, so
\* only the first iteration can exchange the pair; a call with a0 < b0 and
\* a0 # 0 executes one iteration more than the call with the arguments
\* exchanged.
OrderingInvariant ==
    /\ (iters > 0 /\ (InLoop \/ Returned) /\ pc \notin {"L4", "L5"} => a > b)
    /\ (pc = "L2" /\ iters > 1 => ~(a = prevB /\ b = prevA))
    /\ (pc = "L2" /\ iters = 1 /\ a0 < b0 => a = b0 /\ b = a0)
    /\ (Returned /\ a0 < b0 /\ a0 # 0 => iters = FindGcdIters(b0, a0) + 1)

\* a call with 0 < a0 < b0 that returned after at least four iterations
SwappedCallReturned ==
    /\ Returned /\ 0 < a0 /\ a0 < b0
    /\ iters >= 4 /\ iters = FindGcdIters(b0, a0) + 1

====
